---- MODULE Spec2Model ----
(***************************************************************************)
(* ContentUserDataManager (packages/h5p-server/src/ContentUserDataManager  *)
(* .ts): the storage-agnostic manager of per-user content state, together  *)
(* with the storage object it delegates to.                                *)
(*                                                                         *)
(* One action per public method of the manager.  An action is the whole    *)
(* method: argument validation, the branch on the storage object, the one  *)
(* call into the storage and what the returned promise settles to.  The    *)
(* variable last records the most recent invocation: its arguments, the    *)
(* calls it issued into the storage, how its promise settled, and the      *)
(* stored records as they were before it.                                  *)
(*                                                                         *)
(* The storage object is an interface to the manager; its effects are      *)
(* modelled from its contract.                                             *)
(*                                                                         *)
(* Spec explores sequences of calls over a small domain.  SpecOnce,        *)
(* SpecUser, SpecUntyped and SpecAggregate explore one call from every set *)
(* of records the storage can hold, each over a domain that varies other   *)
(* parameters: the manager keeps no state between calls, so what one call  *)
(* does depends only on its arguments and on what the storage holds.       *)
(***************************************************************************)
EXTENDS Integers, Sequences, FiniteSets, TLC

VARIABLES
    contentUserDataStorage, \* TRUE: a storage object was passed to the constructor; FALSE: undefined
    store,                  \* the IContentUserData records the storage holds
    finished,               \* the finished data the storage holds
    last                    \* the most recent invocation of a public method

vars == <<contentUserDataStorage, store, finished, last>>

----------------------------------------------------------------------------
(* Bounds of the model. *)

\* most records the storage holds in a sequence of calls
MaxRecords == 2
\* most records the storage holds before a single call
MaxInitialRecords == 3
\* most finished-data entries the storage holds
MaxFinished == 1

----------------------------------------------------------------------------
(* JavaScript values, as far as the manager looks at them: a value is its   *)
(* type tag (what typeof yields) and its text.                              *)

JsTrue == [type |-> "boolean", val |-> "true"]
JsFalse == [type |-> "boolean", val |-> "false"]
JsString(s) == [type |-> "string", val |-> s]
JsNumber(n) == [type |-> "number", val |-> n]
JsUndefined == [type |-> "undefined", val |-> "undefined"]

JsBooleans == {JsTrue, JsFalse}

typeof(v) == v.type

\* ToBoolean, used by `if (invalidate)` and by `.filter((state) => state.preload)`
ToBoolean(v) ==
    CASE v.type = "boolean" -> v.val = "true"
      [] v.type = "string" -> v.val # ""
      [] v.type = "number" -> v.val \notin {"0", "NaN"}
      [] OTHER -> FALSE

\* Number(subContentId): a subContentId is a string of decimal digits, held as
\* the sequence of its digits; the empty string converts to 0.
RECURSIVE Number(_)
Number(s) ==
    IF s = <<>> THEN 0
    ELSE 10 * Number(SubSeq(s, 1, Len(s) - 1)) + s[Len(s)]

----------------------------------------------------------------------------
(* The values the methods are called with.  A domain names, for each       *)
(* parameter of the public methods, the values a specification draws it    *)
(* from.                                                                   *)

\* "1", "2" and "10"
SubOne == <<1>>
SubTwo == <<2>>
SubTen == <<1, 0>>

\* what a caller that ignores the parameter types may pass for a boolean
JsValues ==
    JsBooleans \cup {JsString("true"), JsString(""), JsNumber("1"), JsUndefined}

\* the errors a storage call may reject with
StorageErrors == {"StorageError"}

\* sequences of calls: one content, two users, two sub-contents
Dom ==
    [contentIds |-> {"c1"},
     userIds |-> {"u1", "u2"},
     requesterIds |-> {"u2"},
     finisherIds |-> {"u1"},
     dataTypes |-> {"state"},
     subContentIds |-> {SubTwo, SubTen},
     userStates |-> {"s1", "s2"},
     flags |-> JsBooleans,
     scores |-> {1},
     once |-> FALSE,
     maxRecords |-> MaxRecords]

\* one call, from any records: two contents, two users, two sub-contents
DomOnce ==
    [contentIds |-> {"c1", "c2"},
     userIds |-> {"u1", "u2"},
     requesterIds |-> {"u1", "u2"},
     finisherIds |-> {"u1", "u2"},
     dataTypes |-> {"state"},
     subContentIds |-> {SubTwo, SubTen},
     userStates |-> {"s1"},
     flags |-> JsBooleans,
     scores |-> {1},
     once |-> TRUE,
     maxRecords |-> MaxInitialRecords + 1]

\* one call, from any records of one content: two users, two data types, two
\* sub-contents
DomUser ==
    [contentIds |-> {"c1"},
     userIds |-> {"u1", "u2"},
     requesterIds |-> {"u1", "u2"},
     finisherIds |-> {"u1"},
     dataTypes |-> {"state", "other"},
     subContentIds |-> {SubTwo, SubTen},
     userStates |-> {"s1"},
     flags |-> JsBooleans,
     scores |-> {1},
     once |-> TRUE,
     maxRecords |-> MaxInitialRecords + 1]

\* one call of a caller that ignores the parameter types: one content, one
\* user, two data types
DomUntyped ==
    [contentIds |-> {"c1"},
     userIds |-> {"u1"},
     requesterIds |-> {"u1"},
     finisherIds |-> {"u1"},
     dataTypes |-> {"state", "other"},
     subContentIds |-> {SubTwo},
     userStates |-> {"s1", "s2"},
     flags |-> JsValues,
     scores |-> {1},
     once |-> TRUE,
     maxRecords |-> MaxInitialRecords + 1]

\* one aggregation, from any records of two users: two data types, three
\* sub-contents
DomAggregate ==
    [contentIds |-> {"c1"},
     userIds |-> {"u1", "u2"},
     requesterIds |-> {"u1"},
     finisherIds |-> {"u1"},
     dataTypes |-> {"state", "other"},
     subContentIds |-> {SubOne, SubTwo, SubTen},
     userStates |-> {"s1", "s2"},
     flags |-> JsBooleans,
     scores |-> {1},
     once |-> TRUE,
     maxRecords |-> MaxInitialRecords + 1]

UsersOf(D) == [id : D.userIds]

----------------------------------------------------------------------------
(* The storage object (IContentUserDataStorage).  A call either rejects,   *)
(* leaving the records as they were, or has the effect below.              *)

SameKey(r, contentId, dataType, subContentId, userId) ==
    /\ r.contentId = contentId
    /\ r.dataType = dataType
    /\ r.subContentId = subContentId
    /\ r.userId = userId

\* (mutant) the record is added, whatever the storage holds at its key
StorageAddContentUserData(st, call) ==
    st \cup {[contentId |-> call.contentId,
              dataType |-> call.dataType,
              subContentId |-> call.subContentId,
              userState |-> call.userState,
              preload |-> call.preload,
              invalidate |-> call.invalidate,
              userId |-> call.user.id]}

\* saveContentUserData: upsert at (contentId, userId, dataType, subContentId)
StorageSaveContentUserData(st, call) ==
    {r \in st : ~SameKey(r, call.contentId, call.dataType, call.subContentId, call.user.id)}
        \cup {[contentId |-> call.contentId,
               dataType |-> call.dataType,
               subContentId |-> call.subContentId,
               userState |-> call.userState,
               preload |-> call.preload,
               invalidate |-> call.invalidate,
               userId |-> call.user.id]}

\* deleteContentUserDataByUserId: every record of (contentId, userId)
StorageDeleteContentUserDataByUserId(st, call) ==
    {r \in st : ~(r.contentId = call.contentId /\ r.userId = call.userId)}

\* deleteAllContentUserDataByContentId: every record of contentId
StorageDeleteAllContentUserDataByContentId(st, call) ==
    {r \in st : r.contentId # call.contentId}

\* loadContentUserData: the record at the key, or undefined
StorageLoadContentUserData(st, call) ==
    LET found == {r \in st : SameKey(r, call.contentId, call.dataType,
                                     call.subContentId, call.user.id)}
    IN  IF found = {} THEN [kind |-> "undefined"]
        ELSE [kind |-> "record", record |-> CHOOSE r \in found : TRUE]

\* listByContent: the records of (contentId, userId), in any order
StorageListByContent(st, call) ==
    LET found == {r \in st : r.contentId = call.contentId /\ r.userId = call.userId}
    IN  {seq \in [1..Cardinality(found) -> found] :
            \A i, j \in 1..Cardinality(found) : i # j => seq[i] # seq[j]}

\* saveFinishedDataForUser: one entry per (contentId, userId)
StorageSaveFinishedDataForUser(fin, call) ==
    {f \in fin : ~(f.contentId = call.contentId /\ f.userId = call.user.id)}
        \cup {[contentId |-> call.contentId,
               userId |-> call.user.id,
               score |-> call.score,
               maxScore |-> call.maxScore,
               openedTimestamp |-> call.openedTimestamp,
               finishedTimestamp |-> call.finishedTimestamp,
               completionTime |-> call.completionTime]}

----------------------------------------------------------------------------
(* What a method of the manager does before its promise settles: it throws, *)
(* it returns undefined without a storage call, or it issues one call into  *)
(* the storage and settles as that call does.                               *)

Throw(error) == [kind |-> "throw", error |-> error]
ReturnUndefined == [kind |-> "return"]
CallStorage(call) == [kind |-> "call", call |-> call]

\* thrown by saveContentUserData on non-boolean invalidate or preload
InvalidArguments == "Error: saveContentUserData received invalid arguments"
\* thrown by the runtime when a method of undefined is called
TypeErrorOfUndefined == "TypeError: Cannot read properties of undefined"

\* (mutant) the records of the requesting user are deleted, not those of userId
deleteOfRequestingUserBody(storage, contentId, userId, requestingUser) ==
    IF storage
    THEN CallStorage([fn |-> "deleteContentUserDataByUserId",
                      contentId |-> contentId,
                      userId |-> requestingUser.id,
                      requestingUser |-> requestingUser])
    ELSE ReturnUndefined

deleteContentUserDataByUserIdBody(storage, contentId, userId, requestingUser) ==
    IF storage
    THEN CallStorage([fn |-> "deleteContentUserDataByUserId",
                      contentId |-> contentId,
                      userId |-> userId,
                      requestingUser |-> requestingUser])
    ELSE ReturnUndefined

\* (mutant) the call of deleteContentUserDataByUserId, copied
deleteAllAsDeleteByUserIdBody(storage, contentId, requestingUser) ==
    IF storage
    THEN CallStorage([fn |-> "deleteContentUserDataByUserId",
                      contentId |-> contentId,
                      userId |-> requestingUser.id,
                      requestingUser |-> requestingUser])
    ELSE ReturnUndefined

deleteAllContentUserDataByContentIdBody(storage, contentId, requestingUser) ==
    IF storage
    THEN CallStorage([fn |-> "deleteAllContentUserDataByContentId",
                      contentId |-> contentId,
                      requestingUser |-> requestingUser])
    ELSE ReturnUndefined

loadContentUserDataBody(storage, contentId, dataType, subContentId, user) ==
    IF ~storage
    THEN ReturnUndefined
    ELSE CallStorage([fn |-> "loadContentUserData",
                      contentId |-> contentId,
                      dataType |-> dataType,
                      subContentId |-> subContentId,
                      user |-> user])

\* (mutant) the storage used without the check for undefined
generateUncheckedBody(storage, contentId, user) ==
    IF ~storage
    THEN Throw(TypeErrorOfUndefined)
    ELSE CallStorage([fn |-> "listByContent",
                      contentId |-> contentId,
                      userId |-> user.id])

generateContentUserDataIntegrationBody(storage, contentId, user) ==
    IF ~storage
    THEN ReturnUndefined
    ELSE CallStorage([fn |-> "listByContent",
                      contentId |-> contentId,
                      userId |-> user.id])

setFinishedBody(storage, contentId, score, maxScore, openedTimestamp, finishedTimestamp, completionTime, user) ==
    IF ~storage
    THEN ReturnUndefined
    ELSE CallStorage([fn |-> "saveFinishedDataForUser",
                      contentId |-> contentId,
                      score |-> score,
                      maxScore |-> maxScore,
                      openedTimestamp |-> openedTimestamp,
                      finishedTimestamp |-> finishedTimestamp,
                      completionTime |-> completionTime,
                      user |-> user])

\* (mutant) no invalidate branch: the record is saved with the flag
saveWithoutInvalidateBody(storage, contentId, dataType, subContentId, userState, invalidate, preload, user) ==
    IF typeof(invalidate) # "boolean" \/ typeof(preload) # "boolean"
    THEN Throw(InvalidArguments)
    ELSE IF storage
    THEN CallStorage([fn |-> "saveContentUserData",
                      contentId |-> contentId,
                      dataType |-> dataType,
                      subContentId |-> subContentId,
                      userState |-> userState,
                      invalidate |-> invalidate,
                      preload |-> preload,
                      user |-> user])
    ELSE ReturnUndefined

\* (mutant) the arguments are rejected only when neither is a boolean
saveValidatingBothBody(storage, contentId, dataType, subContentId, userState, invalidate, preload, user) ==
    IF typeof(invalidate) # "boolean" /\ typeof(preload) # "boolean"
    THEN Throw(InvalidArguments)
    ELSE IF ToBoolean(invalidate)
    THEN IF storage
         THEN CallStorage([fn |-> "deleteContentUserDataByUserId",
                           contentId |-> contentId,
                           userId |-> user.id,
                           requestingUser |-> user])
         ELSE Throw(TypeErrorOfUndefined)
    ELSE IF storage
    THEN CallStorage([fn |-> "saveContentUserData",
                      contentId |-> contentId,
                      dataType |-> dataType,
                      subContentId |-> subContentId,
                      userState |-> userState,
                      invalidate |-> invalidate,
                      preload |-> preload,
                      user |-> user])
    ELSE ReturnUndefined

\* (mutant) dataType and userState, both strings, passed in each other's place
saveSwappedStringsBody(storage, contentId, dataType, subContentId, userState, invalidate, preload, user) ==
    IF typeof(invalidate) # "boolean" \/ typeof(preload) # "boolean"
    THEN Throw(InvalidArguments)
    ELSE IF ToBoolean(invalidate)
    THEN IF storage
         THEN CallStorage([fn |-> "deleteContentUserDataByUserId",
                           contentId |-> contentId,
                           userId |-> user.id,
                           requestingUser |-> user])
         ELSE Throw(TypeErrorOfUndefined)
    ELSE IF storage
    THEN CallStorage([fn |-> "saveContentUserData",
                      contentId |-> contentId,
                      dataType |-> userState,
                      subContentId |-> subContentId,
                      userState |-> dataType,
                      invalidate |-> invalidate,
                      preload |-> preload,
                      user |-> user])
    ELSE ReturnUndefined

\* (mutant) the sub-content is not passed on: every state is saved for the
\* sub-content with the empty id
saveDroppingSubContentIdBody(storage, contentId, dataType, subContentId, userState, invalidate, preload, user) ==
    IF typeof(invalidate) # "boolean" \/ typeof(preload) # "boolean"
    THEN Throw(InvalidArguments)
    ELSE IF ToBoolean(invalidate)
    THEN IF storage
         THEN CallStorage([fn |-> "deleteContentUserDataByUserId",
                           contentId |-> contentId,
                           userId |-> user.id,
                           requestingUser |-> user])
         ELSE Throw(TypeErrorOfUndefined)
    ELSE IF storage
    THEN CallStorage([fn |-> "saveContentUserData",
                      contentId |-> contentId,
                      dataType |-> dataType,
                      subContentId |-> <<>>,
                      userState |-> userState,
                      invalidate |-> invalidate,
                      preload |-> preload,
                      user |-> user])
    ELSE ReturnUndefined

\* (mutant) invalidate and preload, both booleans, passed in each other's place
saveSwappedFlagsBody(storage, contentId, dataType, subContentId, userState, invalidate, preload, user) ==
    IF typeof(invalidate) # "boolean" \/ typeof(preload) # "boolean"
    THEN Throw(InvalidArguments)
    ELSE IF ToBoolean(invalidate)
    THEN IF storage
         THEN CallStorage([fn |-> "deleteContentUserDataByUserId",
                           contentId |-> contentId,
                           userId |-> user.id,
                           requestingUser |-> user])
         ELSE Throw(TypeErrorOfUndefined)
    ELSE IF storage
    THEN CallStorage([fn |-> "saveContentUserData",
                      contentId |-> contentId,
                      dataType |-> dataType,
                      subContentId |-> subContentId,
                      userState |-> userState,
                      invalidate |-> preload,
                      preload |-> invalidate,
                      user |-> user])
    ELSE ReturnUndefined

\* (mutant) the storage is checked before the arguments
saveCheckingStorageFirstBody(storage, contentId, dataType, subContentId, userState, invalidate, preload, user) ==
    IF ~storage
    THEN ReturnUndefined
    ELSE IF typeof(invalidate) # "boolean" \/ typeof(preload) # "boolean"
    THEN Throw(InvalidArguments)
    ELSE IF ToBoolean(invalidate)
    THEN IF storage
         THEN CallStorage([fn |-> "deleteContentUserDataByUserId",
                           contentId |-> contentId,
                           userId |-> user.id,
                           requestingUser |-> user])
         ELSE Throw(TypeErrorOfUndefined)
    ELSE IF storage
    THEN CallStorage([fn |-> "saveContentUserData",
                      contentId |-> contentId,
                      dataType |-> dataType,
                      subContentId |-> subContentId,
                      userState |-> userState,
                      invalidate |-> invalidate,
                      preload |-> preload,
                      user |-> user])
    ELSE ReturnUndefined

saveContentUserDataBody(storage, contentId, dataType, subContentId, userState, invalidate, preload, user) ==
    IF typeof(invalidate) # "boolean" \/ typeof(preload) # "boolean"
    THEN Throw(InvalidArguments)
    ELSE IF ToBoolean(invalidate)
    THEN \* this.contentUserDataStorage is used without a check
         IF storage
         THEN CallStorage([fn |-> "deleteContentUserDataByUserId",
                           contentId |-> contentId,
                           userId |-> user.id,
                           requestingUser |-> user])
         ELSE Throw(TypeErrorOfUndefined)
    ELSE IF storage
    THEN CallStorage([fn |-> "saveContentUserData",
                      contentId |-> contentId,
                      dataType |-> dataType,
                      subContentId |-> subContentId,
                      userState |-> userState,
                      invalidate |-> invalidate,
                      preload |-> preload,
                      user |-> user])
    ELSE ReturnUndefined

----------------------------------------------------------------------------
(* generateContentUserDataIntegration after listByContent has resolved.     *)

RECURSIVE compareDigitStrings(_, _)
compareDigitStrings(s, t) ==
    IF s = <<>> /\ t = <<>> THEN 0
    ELSE IF s = <<>> THEN -1
    ELSE IF t = <<>> THEN 1
    ELSE IF Head(s) # Head(t) THEN Head(s) - Head(t)
    ELSE compareDigitStrings(Tail(s), Tail(t))

\* (mutant) the subContentIds compared as strings
compareSubContentIdAsStrings(a, b) ==
    compareDigitStrings(a.subContentId, b.subContentId)

\* the comparator passed to sort
compareSubContentId(a, b) == Number(a.subContentId) - Number(b.subContentId)

\* Array.prototype.sort with that comparator: stable, ascending
RECURSIVE insertSorted(_, _)
insertSorted(sorted, x) ==
    IF sorted = <<>> THEN <<x>>
    ELSE IF compareSubContentId(sorted[Len(sorted)], x) <= 0
         THEN Append(sorted, x)
         ELSE Append(insertSorted(SubSeq(sorted, 1, Len(sorted) - 1), x),
                     sorted[Len(sorted)])

RECURSIVE sortStates(_)
sortStates(states) ==
    IF states = <<>> THEN <<>>
    ELSE insertSorted(sortStates(SubSeq(states, 1, Len(states) - 1)),
                      states[Len(states)])

\* (mutant) no filter on preload
filterNothing(states) == states

\* .filter((state) => state.preload)
filterPreload(states) == SelectSeq(states, LAMBDA state : ToBoolean(state.preload))

\* .map((state) => ({ [state.dataType]: state.userState }))
mapStates(states) ==
    [i \in 1..Len(states) |-> (states[i].dataType :> states[i].userState)]

mappedStates(states) == mapStates(filterPreload(sortStates(states)))

----------------------------------------------------------------------------
(* The state machine. *)

NoInvocation == [op |-> "none"]

Undefined == [kind |-> "undefined"]

\* the records and the finished data after a storage call that resolves
StorageRecordsAfter(st, call) ==
    CASE call.fn = "saveContentUserData" -> StorageSaveContentUserData(st, call)
      [] call.fn = "deleteContentUserDataByUserId" ->
            StorageDeleteContentUserDataByUserId(st, call)
      [] call.fn = "deleteAllContentUserDataByContentId" ->
            StorageDeleteAllContentUserDataByContentId(st, call)
      [] OTHER -> st

StorageFinishedAfter(fin, call) ==
    IF call.fn = "saveFinishedDataForUser"
    THEN StorageSaveFinishedDataForUser(fin, call)
    ELSE fin

\* what a storage call that resolves may resolve to
StorageResolvesTo(st, call) ==
    CASE call.fn = "loadContentUserData" -> {StorageLoadContentUserData(st, call)}
      [] call.fn = "listByContent" ->
            {[kind |-> "array", items |-> states] : states \in StorageListByContent(st, call)}
      [] OTHER -> {Undefined}

\* An invocation: the calls it issued into the storage, the error a call
\* rejected with, what a call resolved to (returned) and what that object
\* holds when the method ends (returnedAfter), how the method's promise
\* settled, and what the storage held before.
Invocation(op, args, calls, storageError, returned, returnedAfter, outcome, error, value) ==
    [op |-> op, args |-> args, calls |-> calls, storageError |-> storageError,
     returned |-> returned, returnedAfter |-> returnedAfter,
     outcome |-> outcome, error |-> error, value |-> value,
     pre |-> store, preFinished |-> finished]

\* The method throws, or returns undefined, without a storage call.
SettleWithoutCall(op, args, body) ==
    /\ body.kind # "call"
    /\ last' = IF body.kind = "throw"
               THEN Invocation(op, args, <<>>, "", Undefined, Undefined,
                               "rejected", body.error, Undefined)
               ELSE Invocation(op, args, <<>>, "", Undefined, Undefined,
                               "resolved", "", Undefined)
    /\ UNCHANGED <<contentUserDataStorage, store, finished>>

\* (mutant) the rejection of the storage call is caught: the method resolves
SettleSwallowedCall(op, args, body) ==
    /\ body.kind = "call"
    /\ \E error \in StorageErrors :
          last' = Invocation(op, args, <<body.call>>, error, Undefined, Undefined,
                             "resolved", "", Undefined)
    /\ UNCHANGED <<contentUserDataStorage, store, finished>>

\* The storage call rejects: the method returned (or awaited) its promise and
\* rejects with the same error.
SettleRejectedCall(op, args, body) ==
    /\ body.kind = "call"
    /\ \E error \in StorageErrors :
          last' = Invocation(op, args, <<body.call>>, error, Undefined, Undefined,
                             "rejected", error, Undefined)
    /\ UNCHANGED <<contentUserDataStorage, store, finished>>

\* The storage call resolves: the method resolves to what the call resolved to.
SettleResolvedCall(op, args, body) ==
    /\ body.kind = "call"
    /\ store' = StorageRecordsAfter(store, body.call)
    /\ finished' = StorageFinishedAfter(finished, body.call)
    /\ \E returned \in StorageResolvesTo(store, body.call) :
          last' = Invocation(op, args, <<body.call>>, "", returned, returned,
                             "resolved", "", returned)
    /\ UNCHANGED contentUserDataStorage

Settle(op, args, body) ==
    \/ SettleWithoutCall(op, args, body)
    \/ SettleRejectedCall(op, args, body)
    \/ SettleResolvedCall(op, args, body)

\* (mutant) deleting for a user who has no record of the content is refused
deleteContentUserDataOfKnownUser(contentId, userId, requestingUser) ==
    LET op == "deleteContentUserDataByUserId"
        args == [contentId |-> contentId, userId |-> userId,
                 requestingUser |-> requestingUser]
        known == \E r \in store : r.contentId = contentId /\ r.userId = userId
    IN  IF contentUserDataStorage /\ ~known
        THEN SettleWithoutCall(op, args, Throw("H5pError: not found"))
        ELSE Settle(op, args,
                    deleteContentUserDataByUserIdBody(contentUserDataStorage,
                                                      contentId, userId,
                                                      requestingUser))

deleteContentUserDataByUserId(contentId, userId, requestingUser) ==
    Settle("deleteContentUserDataByUserId",
           [contentId |-> contentId, userId |-> userId,
            requestingUser |-> requestingUser],
           deleteContentUserDataByUserIdBody(contentUserDataStorage,
                                             contentId, userId, requestingUser))

deleteAllContentUserDataByContentId(contentId, requestingUser) ==
    Settle("deleteAllContentUserDataByContentId",
           [contentId |-> contentId, requestingUser |-> requestingUser],
           deleteAllContentUserDataByContentIdBody(contentUserDataStorage,
                                                   contentId, requestingUser))

loadContentUserData(contentId, dataType, subContentId, user) ==
    Settle("loadContentUserData",
           [contentId |-> contentId, dataType |-> dataType,
            subContentId |-> subContentId, user |-> user],
           loadContentUserDataBody(contentUserDataStorage, contentId,
                                   dataType, subContentId, user))

\* listByContent is awaited; what it resolved to is sorted, filtered and mapped
generateContentUserDataIntegration(contentId, user) ==
    LET op == "generateContentUserDataIntegration"
        args == [contentId |-> contentId, user |-> user]
        body == generateContentUserDataIntegrationBody(contentUserDataStorage,
                                                       contentId, user)
    IN  \/ SettleWithoutCall(op, args, body)
        \/ SettleRejectedCall(op, args, body)
        \/ /\ body.kind = "call"
           /\ \E states \in StorageResolvesTo(store, body.call) :
                 \* sort orders the array it is called on and returns it
                 last' = Invocation(op, args, <<body.call>>, "", states,
                                    [kind |-> "array", items |-> sortStates(states.items)],
                                    "resolved", "",
                                    [kind |-> "array",
                                     items |-> mappedStates(states.items)])
           /\ UNCHANGED <<contentUserDataStorage, store, finished>>

setFinished(contentId, score, maxScore, openedTimestamp, finishedTimestamp, completionTime, user) ==
    Settle("setFinished",
           [contentId |-> contentId, score |-> score, maxScore |-> maxScore,
            openedTimestamp |-> openedTimestamp,
            finishedTimestamp |-> finishedTimestamp,
            completionTime |-> completionTime, user |-> user],
           setFinishedBody(contentUserDataStorage, contentId, score, maxScore,
                           openedTimestamp, finishedTimestamp, completionTime, user))

saveContentUserData(contentId, dataType, subContentId, userState, invalidate, preload, user) ==
    Settle("saveContentUserData",
           [contentId |-> contentId, dataType |-> dataType,
            subContentId |-> subContentId, userState |-> userState,
            invalidate |-> invalidate, preload |-> preload, user |-> user],
           saveContentUserDataBody(contentUserDataStorage, contentId, dataType,
                                   subContentId, userState, invalidate,
                                   preload, user))

\* a specification of single calls allows a call only from the initial state
MayCall(D) == D.once => last = NoInvocation

\* the bounds on what the storage holds
Bounded(D) ==
    /\ Cardinality(store') <= D.maxRecords
    /\ Cardinality(finished') <= MaxFinished

\* one call of a public method, its arguments drawn from the domain D
NextOver(D) ==
    \/ \E contentId \in D.contentIds, userId \in D.userIds, id \in D.requesterIds :
          /\ MayCall(D)
          /\ deleteContentUserDataByUserId(contentId, userId, [id |-> id])
          /\ Bounded(D)
    \/ \E contentId \in D.contentIds, id \in D.requesterIds :
          /\ MayCall(D)
          /\ deleteAllContentUserDataByContentId(contentId, [id |-> id])
          /\ Bounded(D)
    \/ \E contentId \in D.contentIds, dataType \in D.dataTypes,
          subContentId \in D.subContentIds, user \in UsersOf(D) :
          /\ MayCall(D)
          /\ loadContentUserData(contentId, dataType, subContentId, user)
          /\ Bounded(D)
    \/ \E contentId \in D.contentIds, user \in UsersOf(D) :
          /\ MayCall(D)
          /\ generateContentUserDataIntegration(contentId, user)
          /\ Bounded(D)
    \/ \E contentId \in D.contentIds, score \in D.scores, id \in D.finisherIds :
          /\ MayCall(D)
          /\ setFinished(contentId, score, score, score, score, score, [id |-> id])
          /\ Bounded(D)
    \/ \E contentId \in D.contentIds, dataType \in D.dataTypes,
          subContentId \in D.subContentIds, userState \in D.userStates,
          invalidate \in D.flags, preload \in D.flags, user \in UsersOf(D) :
          /\ MayCall(D)
          /\ saveContentUserData(contentId, dataType, subContentId, userState,
                                 invalidate, preload, user)
          /\ Bounded(D)

\* the records a storage may hold: any, over the values of D
RecordsOf(D) ==
    [contentId : D.contentIds, dataType : D.dataTypes,
     subContentId : D.subContentIds, userState : D.userStates,
     preload : JsBooleans, invalidate : {JsFalse}, userId : D.userIds]

HasKeyOf(st, r) ==
    \E q \in st : SameKey(q, r.contentId, r.dataType, r.subContentId, r.userId)

\* the sets of at most n records of D, no two at the same key
RECURSIVE StoresOf(_, _)
StoresOf(D, n) ==
    IF n = 0 THEN {{}}
    ELSE LET smaller == StoresOf(D, n - 1)
         IN  smaller \cup {sr[1] \cup {sr[2]} :
                              sr \in {p \in smaller \X RecordsOf(D) : ~HasKeyOf(p[1], p[2])}}

\* a manager constructed with or without a storage, the storage holding any
\* set of at most n records
InitOver(D, n) ==
    /\ contentUserDataStorage \in BOOLEAN
    /\ store \in IF contentUserDataStorage THEN StoresOf(D, n) ELSE {{}}
    /\ finished = {}
    /\ last = NoInvocation

(* Sequences of calls, from a storage that holds nothing. *)

Init == InitOver(Dom, 0)

Next == NextOver(Dom)

Spec == Init /\ [][Next]_vars

(* One call, from any records the storage can hold. *)

InitOnce == InitOver(DomOnce, MaxInitialRecords)

NextOnce == NextOver(DomOnce)

SpecOnce == InitOnce /\ [][NextOnce]_vars

(* One call, from any records of one content. *)

InitUser == InitOver(DomUser, MaxInitialRecords)

NextUser == NextOver(DomUser)

SpecUser == InitUser /\ [][NextUser]_vars

(* One call of a caller that ignores the parameter types. *)

InitUntyped == InitOver(DomUntyped, MaxInitialRecords)

NextUntyped == NextOver(DomUntyped)

SpecUntyped == InitUntyped /\ [][NextUntyped]_vars

(* One aggregation, from any records of two users in up to three           *)
(* sub-contents.                                                           *)

InitAggregate == InitOver(DomAggregate, MaxInitialRecords)

NextAggregate ==
    \E contentId \in DomAggregate.contentIds, user \in UsersOf(DomAggregate) :
       /\ MayCall(DomAggregate)
       /\ generateContentUserDataIntegration(contentId, user)
       /\ Bounded(DomAggregate)

SpecAggregate == InitAggregate /\ [][NextAggregate]_vars

(* Two calls of saveContentUserData in flight at once.  No await precedes  *)
(* the storage call of the method, so each call validates and issues its   *)
(* storage call at once; the storage completes the two calls in an order   *)
(* of its own choosing, and either may fail.                               *)

DomConcurrent ==
    [contentIds |-> {"c1"},
     userIds |-> {"u1", "u2"},
     requesterIds |-> {"u1", "u2"},
     finisherIds |-> {"u1"},
     dataTypes |-> {"state"},
     subContentIds |-> {SubTwo, SubTen},
     userStates |-> {"s1"},
     flags |-> JsBooleans,
     scores |-> {1},
     once |-> TRUE,
     maxRecords |-> MaxInitialRecords + 2]

\* the argument lists of saveContentUserData over the domain D
SaveArgsOf(D) ==
    [contentId : D.contentIds, dataType : D.dataTypes,
     subContentId : D.subContentIds, userState : D.userStates,
     invalidate : D.flags, preload : D.flags, user : UsersOf(D)]

\* the records once the storage call of a body, if it issued one, completed
StoreAfterBody(st, body, failed) ==
    IF body.kind = "call" /\ ~failed THEN StorageRecordsAfter(st, body.call) ELSE st

\* the records once both storage calls completed in the given order
StoreAfterBoth(st, bodies, order, rejected) ==
    StoreAfterBody(StoreAfterBody(st, bodies[order[1]], order[1] \in rejected),
                   bodies[order[2]], order[2] \in rejected)

\* how the promise of one of the two calls settles
ConcurrentOutcome(body, failed) ==
    IF body.kind = "throw" THEN [outcome |-> "rejected", error |-> body.error]
    ELSE IF body.kind = "call" /\ failed
    THEN [outcome |-> "rejected", error |-> "StorageError"]
    ELSE [outcome |-> "resolved", error |-> ""]

concurrentSaveContentUserData(first, second) ==
    LET bodyOf(a) == saveContentUserDataBody(contentUserDataStorage, a.contentId,
                                             a.dataType, a.subContentId,
                                             a.userState, a.invalidate,
                                             a.preload, a.user)
        bodies == <<bodyOf(first), bodyOf(second)>>
        issued == {i \in {1, 2} : bodies[i].kind = "call"}
    IN  \E order \in {<<1, 2>>, <<2, 1>>}, rejected \in SUBSET issued :
           /\ store' = StoreAfterBoth(store, bodies, order, rejected)
           /\ last' = [op |-> "saveContentUserData, twice",
                       args |-> <<first, second>>,
                       bodies |-> bodies,
                       order |-> order,
                       rejected |-> rejected,
                       outcomes |-> [i \in {1, 2} |->
                                       ConcurrentOutcome(bodies[i], i \in rejected)],
                       pre |-> store,
                       preFinished |-> finished]
           /\ UNCHANGED <<contentUserDataStorage, finished>>

InitConcurrent == InitOver(DomConcurrent, MaxInitialRecords)

NextConcurrent ==
    \E first \in SaveArgsOf(DomConcurrent), second \in SaveArgsOf(DomConcurrent) :
       /\ MayCall(DomConcurrent)
       /\ concurrentSaveContentUserData(first, second)
       /\ Bounded(DomConcurrent)

SpecConcurrent == InitConcurrent /\ [][NextConcurrent]_vars

(* One request to postContentUserData of the controller, the values of     *)
(* body.invalidate and body.preload being what the client sent.            *)

\* what a request body may carry as invalidate or preload
WireValues ==
    {JsNumber("1"), JsString("1"), JsNumber("0"), JsString("0"),
     JsString("true"), JsTrue, JsUndefined}

DomAdapter ==
    [contentIds |-> {"c1"},
     userIds |-> {"u1", "u2"},
     requesterIds |-> {"u1", "u2"},
     finisherIds |-> {"u1"},
     dataTypes |-> {"state"},
     subContentIds |-> {SubTwo, SubTen},
     userStates |-> {"s1"},
     flags |-> WireValues,
     scores |-> {1},
     once |-> TRUE,
     maxRecords |-> MaxInitialRecords + 1]

\* (mutant) body.invalidate and body.preload are passed on as received
wireFlagAsReceived(v) == v

\* v === 1 || v === '1'
wireFlag(v) == IF v = JsNumber("1") \/ v = JsString("1") THEN JsTrue ELSE JsFalse

\* The method of the manager that the controller calls: the save operation
\* of the manager.
createOrUpdateContentUserDataBody(storage, contentId, dataType, subContentId, userState, invalidate, preload, user) ==
    saveContentUserDataBody(storage, contentId, dataType, subContentId, userState, invalidate, preload, user)

\* the promise of the handler settles as the awaited call of the manager
\* does; when that resolves, the response is sent with status 200
postContentUserData(contentId, dataType, subContentId, body, user) ==
    Settle("postContentUserData",
           [contentId |-> contentId, dataType |-> dataType,
            subContentId |-> subContentId, body |-> body,
            userState |-> body.data,
            invalidate |-> wireFlag(body.invalidate),
            preload |-> wireFlag(body.preload),
            user |-> user],
           createOrUpdateContentUserDataBody(contentUserDataStorage, contentId,
                                             dataType, subContentId, body.data,
                                             wireFlag(body.invalidate),
                                             wireFlag(body.preload), user))

InitAdapter == InitOver(DomAdapter, MaxInitialRecords)

NextAdapter ==
    \E contentId \in DomAdapter.contentIds, dataType \in DomAdapter.dataTypes,
       subContentId \in DomAdapter.subContentIds, user \in UsersOf(DomAdapter),
       body \in [data : DomAdapter.userStates, invalidate : DomAdapter.flags,
                 preload : DomAdapter.flags] :
       /\ MayCall(DomAdapter)
       /\ postContentUserData(contentId, dataType, subContentId, body, user)
       /\ Bounded(DomAdapter)

SpecAdapter == InitAdapter /\ [][NextAdapter]_vars

----------------------------------------------------------------------------
(* What the claims speak of. *)

Called(op) == last.op = op

BooleanFlags ==
    /\ typeof(last.args.invalidate) = "boolean"
    /\ typeof(last.args.preload) = "boolean"

\* the records of one user for one content
RecordsOfUser(st, contentId, userId) ==
    {r \in st : r.contentId = contentId /\ r.userId = userId}

\* what loadContentUserData resolves to when the storage holds st and its
\* call, if it issues one, resolves
loadResolvesTo(storage, st, contentId, dataType, subContentId, user) ==
    LET body == loadContentUserDataBody(storage, contentId, dataType,
                                        subContentId, user)
    IN  IF body.kind = "call"
        THEN StorageLoadContentUserData(st, body.call)
        ELSE Undefined

\* the last invocation issued no storage call and changed nothing
NoEffect ==
    /\ last.calls = <<>>
    /\ store = last.pre
    /\ finished = last.preFinished

----------------------------------------------------------------------------
(* C1.  Without a storage, saveContentUserData with boolean invalidate and  *)
(* preload resolves, without a storage call and without effect; also when  *)
(* invalidate is true.                                                     *)
C1_SaveWithoutStorageIsNoOp ==
    (/\ Called("saveContentUserData")
     /\ ~contentUserDataStorage
     /\ BooleanFlags)
        => /\ last.outcome = "resolved"
           /\ NoEffect

(* C2.  After saveContentUserData with invalidate true has resolved, the    *)
(* storage holds no record of that content and that user, whatever         *)
(* dataType and subContentId were passed, and loadContentUserData resolves *)
(* to undefined at every key of that content and user.                     *)
C2_InvalidateRemovesAllOfUser ==
    (/\ Called("saveContentUserData")
     /\ BooleanFlags
     /\ ToBoolean(last.args.invalidate)
     /\ last.outcome = "resolved")
        => /\ RecordsOfUser(store, last.args.contentId, last.args.user.id) = {}
           /\ \A dataType \in DomUser.dataTypes, subContentId \in DomUser.subContentIds :
                 loadResolvesTo(contentUserDataStorage, store, last.args.contentId,
                                dataType, subContentId, last.args.user) = Undefined

\* two records of the user were removed by a call that named the key of
\* neither; a record of another user stayed
C2_Witness ==
    /\ Called("saveContentUserData")
    /\ ToBoolean(last.args.invalidate)
    /\ last.outcome = "resolved"
    /\ Cardinality(RecordsOfUser(last.pre, last.args.contentId, last.args.user.id)) = 2
    /\ \A r \in RecordsOfUser(last.pre, last.args.contentId, last.args.user.id) :
          \/ r.subContentId # last.args.subContentId
          \/ r.dataType # last.args.dataType
    /\ RecordsOfUser(store, last.args.contentId, last.args.user.id) = {}
    /\ store # {}

(* C3.  saveContentUserData with an invalidate or a preload that is not a   *)
(* boolean rejects with the error for invalid arguments; it issues no      *)
(* storage call and the storage holds what it held.                        *)
C3_NonBooleanFlagsRejected ==
    (/\ Called("saveContentUserData")
     /\ ~BooleanFlags)
        => /\ last.outcome = "rejected"
           /\ last.error = InvalidArguments
           /\ NoEffect

\* a storage with a record, invalidate false and preload the string "true"
C3_Witness ==
    /\ Called("saveContentUserData")
    /\ contentUserDataStorage
    /\ last.args.invalidate = JsFalse
    /\ last.args.preload = JsString("true")
    /\ last.outcome = "rejected"
    /\ last.error = InvalidArguments
    /\ last.calls = <<>>
    /\ store # {}

(* C4.  With a storage, when saveContentUserData with invalidate false has  *)
(* resolved and loadContentUserData is called next with the same key and   *)
(* resolves, it resolves to a record whose userState is the one saved,     *)
(* whatever the storage held at the key before.                            *)
C4_SaveThenLoad ==
    /\ contentUserDataStorage
    /\ Called("saveContentUserData")
    /\ BooleanFlags
    /\ ~ToBoolean(last.args.invalidate)
    /\ last.outcome = "resolved"
    /\ last'.op = "loadContentUserData"
    /\ last'.outcome = "resolved"
    /\ last'.args.contentId = last.args.contentId
    /\ last'.args.dataType = last.args.dataType
    /\ last'.args.subContentId = last.args.subContentId
    /\ last'.args.user = last.args.user

C4_UpsertRoundTrip ==
    [][C4_SaveThenLoad =>
          /\ last'.value.kind = "record"
          /\ last'.value.record.userState = last.args.userState]_vars

\* a load that resolved to the record at its key, while the storage holds
\* another record as well
C4_Witness ==
    /\ Called("loadContentUserData")
    /\ last.outcome = "resolved"
    /\ last.value.kind = "record"
    /\ last.value.record.userState = "s2"
    /\ last.value.record.subContentId = last.args.subContentId
    /\ Cardinality(store) = MaxRecords

(* C5.  generateContentUserDataIntegration resolves to an array with one    *)
(* single-key element dataType -> userState per record of the content and  *)
(* user whose preload is true, and none for a record whose preload is      *)
(* false: records with the same dataType are not merged, and the array is  *)
(* empty when no record has preload true.                                  *)
PreloadedOfLast ==
    {r \in RecordsOfUser(last.pre, last.args.contentId, last.args.user.id) :
        r.preload = JsTrue}

ElementOf(r) == r.dataType :> r.userState

C5_WitnessEmpty ==
    /\ Called("generateContentUserDataIntegration")
    /\ last.outcome = "resolved"
    /\ RecordsOfUser(last.pre, last.args.contentId, last.args.user.id) # {}
    /\ PreloadedOfLast = {}
    /\ last.value = [kind |-> "array", items |-> <<>>]

(* C6.  The array generateContentUserDataIntegration resolves to is in      *)
(* ascending order of the numeric value of subContentId, in whatever order *)
(* the storage returned the records: "2", "10", "1" are delivered as "1",  *)
(* "2", "10".                                                              *)
C6_OrderedBySubContentNumber ==
    (/\ Called("generateContentUserDataIntegration")
     /\ contentUserDataStorage
     /\ last.outcome = "resolved")
        => \E order \in [1..Cardinality(PreloadedOfLast) -> PreloadedOfLast] :
              /\ \A i, j \in DOMAIN order : i # j => order[i] # order[j]
              /\ \A i, j \in DOMAIN order :
                    i < j => Number(order[i].subContentId) <= Number(order[j].subContentId)
              /\ last.value.items = [i \in DOMAIN order |-> ElementOf(order[i])]

\* the storage returned "2", "10", "1", all with preload true, and the
\* elements of "1", "2", "10" were delivered in that order
C6_Witness ==
    /\ Called("generateContentUserDataIntegration")
    /\ last.outcome = "resolved"
    /\ last.returned.kind = "array"
    /\ Len(last.returned.items) = 3
    /\ last.returned.items[1].subContentId = SubTwo
    /\ last.returned.items[2].subContentId = SubTen
    /\ last.returned.items[3].subContentId = SubOne
    /\ \A i \in 1..3 : last.returned.items[i].preload = JsTrue
    /\ last.returned.items[1].userState # last.returned.items[3].userState
    /\ last.value.items = <<ElementOf(last.returned.items[3]),
                            ElementOf(last.returned.items[1]),
                            ElementOf(last.returned.items[2])>>

(* C7.  Without a storage, loadContentUserData and                          *)
(* generateContentUserDataIntegration resolve to undefined, and            *)
(* deleteContentUserDataByUserId, deleteAllContentUserDataByContentId and  *)
(* setFinished resolve; none issues a storage call or has an effect.       *)
C7_NoStorageNoOp ==
    (/\ ~contentUserDataStorage
     /\ last.op \in {"loadContentUserData", "generateContentUserDataIntegration",
                     "deleteContentUserDataByUserId",
                     "deleteAllContentUserDataByContentId", "setFinished"})
        => /\ last.outcome = "resolved"
           /\ last.value = Undefined
           /\ NoEffect

C7_Witness ==
    /\ ~contentUserDataStorage
    /\ Called("generateContentUserDataIntegration")
    /\ last.outcome = "resolved"
    /\ last.value = Undefined

(* C8.  After deleteAllContentUserDataByContentId has resolved, the storage *)
(* holds no record of that content, of any user, and every record of       *)
(* another content as before.                                              *)
C8_DeleteAllRemovesContentOnly ==
    (/\ Called("deleteAllContentUserDataByContentId")
     /\ contentUserDataStorage
     /\ last.outcome = "resolved")
        => store = {r \in last.pre : r.contentId # last.args.contentId}

\* records of two users for the content were removed, a record of another
\* content stayed
C8_Witness ==
    /\ Called("deleteAllContentUserDataByContentId")
    /\ last.outcome = "resolved"
    /\ \E r, q \in last.pre :
          /\ r.contentId = last.args.contentId
          /\ q.contentId = last.args.contentId
          /\ r.userId # q.userId
          /\ r.userId # last.args.requestingUser.id
    /\ \E r \in store : r.contentId # last.args.contentId
    /\ Cardinality(store) < Cardinality(last.pre)

(* C9.  When the storage call of a public method rejects, the method        *)
(* rejects with the same error: it does not resolve, and it issued that    *)
(* one storage call and no other.                                          *)
C9_StorageErrorPropagated ==
    (/\ last.op # "none"
     /\ last.storageError # "")
        => /\ last.outcome = "rejected"
           /\ last.error = last.storageError
           /\ Len(last.calls) = 1

C9_Witness ==
    /\ Called("setFinished")
    /\ last.storageError \in StorageErrors
    /\ last.outcome = "rejected"
    /\ last.error = last.storageError

(* C10.  In every state that calls of saveContentUserData,                  *)
(* deleteContentUserDataByUserId and deleteAllContentUserDataByContentId   *)
(* reach, the storage holds at most one record per (contentId, userId,     *)
(* dataType, subContentId).                                                *)
C10_OneRecordPerKey ==
    \A r, q \in store :
        SameKey(r, q.contentId, q.dataType, q.subContentId, q.userId) => r = q

\* a save at a key that held a record with another userState
C10_Witness ==
    /\ Called("saveContentUserData")
    /\ last.outcome = "resolved"
    /\ ~ToBoolean(last.args.invalidate)
    /\ \E r \in last.pre :
          /\ SameKey(r, last.args.contentId, last.args.dataType,
                     last.args.subContentId, last.args.user.id)
          /\ r.userState # last.args.userState
    /\ Cardinality(store) = Cardinality(last.pre)
    /\ Cardinality(store) = MaxRecords

----------------------------------------------------------------------------
(* C11.  deleteContentUserDataByUserId is idempotent: called twice in       *)
(* succession for the same contentId and userId, with no storage failure,  *)
(* both calls resolve without an error and to the same value, and the      *)
(* second call leaves the records as the first call left them.             *)

DeletedByUserId(inv) ==
    /\ inv.op = "deleteContentUserDataByUserId"
    /\ inv.storageError = ""

C11_DeleteByUserIdempotent ==
    [][(/\ DeletedByUserId(last)
        /\ DeletedByUserId(last')
        /\ last'.args.contentId = last.args.contentId
        /\ last'.args.userId = last.args.userId)
       => (/\ last.outcome = "resolved"
           /\ last'.outcome = "resolved"
           /\ last'.error = "" /\ last.error = ""
           /\ last'.value = last.value
           /\ store' = store
           /\ RecordsOfUser(store', last.args.contentId, last.args.userId) = {})]_vars

\* a second deletion for a user whose records are already gone, while the
\* other user's record is still held
C11_Witness ==
    /\ Called("deleteContentUserDataByUserId")
    /\ contentUserDataStorage
    /\ last.outcome = "resolved"
    /\ Len(last.calls) = 1
    /\ RecordsOfUser(last.pre, last.args.contentId, last.args.userId) = {}
    /\ store = last.pre
    /\ store # {}

----------------------------------------------------------------------------
(* C12.  Two concurrent calls of saveContentUserData whose keys (contentId, *)
(* user, dataType, subContentId) differ leave the same records whichever   *)
(* of their storage calls completes first.                                 *)

CalledTwice == last.op = "saveContentUserData, twice"

KeyOfArgs(a) == <<a.contentId, a.user.id, a.dataType, a.subContentId>>

\* the records, had the storage completed the two calls in the other order
StoreInOtherOrder ==
    StoreAfterBoth(last.pre, last.bodies, <<last.order[2], last.order[1]>>,
                   last.rejected)

\* one call invalidates the states of the content and user the other saves for
Entangled ==
    \E i, j \in {1, 2} :
       /\ last.args[i].invalidate = JsTrue
       /\ last.args[j].invalidate = JsFalse
       /\ last.args[i].contentId = last.args[j].contentId
       /\ last.args[i].user.id = last.args[j].user.id

\* as claimed: for all calls with different keys, invalidating ones included
C12_DifferentKeysIndependent ==
    (CalledTwice /\ KeyOfArgs(last.args[1]) # KeyOfArgs(last.args[2]))
    => store = StoreInOtherOrder

\* C12 as it holds: the order of completion does not matter for two calls
\* with different keys unless one of them has invalidate = true and the other
\* saves for the same contentId and user
C12_IndependentUnlessInvalidated ==
    (/\ CalledTwice
     /\ KeyOfArgs(last.args[1]) # KeyOfArgs(last.args[2])
     /\ ~Entangled)
    => store = StoreInOtherOrder

\* both storage calls took effect, the later issued first: one saved a state
\* for one user, the other removed the states of the other user
C12_Witness ==
    /\ CalledTwice
    /\ contentUserDataStorage
    /\ KeyOfArgs(last.args[1]) # KeyOfArgs(last.args[2])
    /\ ~Entangled
    /\ \E i \in {1, 2} : last.args[i].invalidate = JsTrue
    /\ \E i \in {1, 2} : last.args[i].invalidate = JsFalse
    /\ last.rejected = {}
    /\ last.order = <<2, 1>>
    /\ store \ last.pre # {}
    /\ last.pre \ store # {}

----------------------------------------------------------------------------
(* C13.  With a storage and valid arguments, every invocation of a public  *)
(* method issues one or two storage calls; saveContentUserData with        *)
(* invalidate = true issues exactly one call, deleteContentUserDataByUserId,*)
(* and no saveContentUserData call.                                        *)

StorageCallsOfLast == {last.calls[i].fn : i \in 1..Len(last.calls)}

C13_OneOrTwoStorageCalls ==
    (/\ contentUserDataStorage
     /\ last.op # "none"
     /\ Called("saveContentUserData") => BooleanFlags)
    => /\ Len(last.calls) \in {1, 2}
       /\ (Called("saveContentUserData") /\ last.args.invalidate = JsTrue)
          => /\ Len(last.calls) = 1
             /\ StorageCallsOfLast = {"deleteContentUserDataByUserId"}
             /\ last.calls[1].userId = last.args.user.id
             /\ last.calls[1].contentId = last.args.contentId

\* a save with invalidate = true whose one storage call removed records
C13_Witness ==
    /\ contentUserDataStorage
    /\ Called("saveContentUserData")
    /\ last.args.invalidate = JsTrue
    /\ last.outcome = "resolved"
    /\ StorageCallsOfLast = {"deleteContentUserDataByUserId"}
    /\ store # last.pre

----------------------------------------------------------------------------
(* C14.  Deleting by user, through deleteContentUserDataByUserId or through *)
(* saveContentUserData with invalidate = true, removes the records of that *)
(* contentId and user and nothing else: the records of other users and of  *)
(* other contents stay as they were, and nothing of the arguments of the   *)
(* save (dataType, subContentId, userState, preload) is stored.            *)

C14_DeleteByUserRemovesOnlyThatUser ==
    (contentUserDataStorage /\ last.op # "none" /\ last.outcome = "resolved")
    => /\ Called("deleteContentUserDataByUserId")
          => store = last.pre \ RecordsOfUser(last.pre, last.args.contentId,
                                              last.args.userId)
       /\ (Called("saveContentUserData") /\ last.args.invalidate = JsTrue)
          => store = last.pre \ RecordsOfUser(last.pre, last.args.contentId,
                                              last.args.user.id)

\* a deletion requested by another user than the one deleted for, which
\* removed a record and left one of another user and one of another content
C14_Witness ==
    /\ contentUserDataStorage
    /\ Called("deleteContentUserDataByUserId")
    /\ last.outcome = "resolved"
    /\ last.args.userId # last.args.requestingUser.id
    /\ store # last.pre
    /\ \E r \in store : /\ r.contentId = last.args.contentId
                         /\ r.userId # last.args.userId
    /\ \E r \in store : r.contentId # last.args.contentId

\* a save with invalidate = true which removed a record and stored nothing
C14_WitnessInvalidate ==
    /\ contentUserDataStorage
    /\ Called("saveContentUserData")
    /\ last.args.invalidate = JsTrue
    /\ last.outcome = "resolved"
    /\ store # last.pre
    /\ store # {}
    /\ ~\E r \in store : /\ r.contentId = last.args.contentId
                          /\ r.userId = last.args.user.id

----------------------------------------------------------------------------
(* C15.  After saves with invalidate = false, a key holds the userState and *)
(* preload of the latest save at it and nothing of earlier ones, so an     *)
(* aggregation that follows a save delivers the record of the saved key    *)
(* exactly when that save had preload = true, with the userState of that   *)
(* save, whatever was saved at the key before: a state saved with preload  *)
(* true and saved again with preload false is not delivered.               *)

C15_SaveThenAggregate ==
    /\ Called("saveContentUserData")
    /\ last.args.invalidate = JsFalse
    /\ last.outcome = "resolved"
    /\ last.calls # <<>>
    /\ last'.op = "generateContentUserDataIntegration"
    /\ last'.outcome = "resolved"
    /\ last'.calls # <<>>
    /\ last'.args.contentId = last.args.contentId
    /\ last'.args.user = last.args.user

\* the records at the key of the last save
AtSavedKey ==
    {r \in store : SameKey(r, last.args.contentId, last.args.dataType,
                           last.args.subContentId, last.args.user.id)}

\* the records of the content and user at other keys that are delivered
OtherPreloaded ==
    {r \in RecordsOfUser(store, last.args.contentId, last.args.user.id) \ AtSavedKey :
        r.preload = JsTrue}

LatestOfSavedKey == IF last.args.preload = JsTrue THEN 1 ELSE 0

C15_LatestSaveDelivered ==
    [][C15_SaveThenAggregate =>
          LET latest == last.args.dataType :> last.args.userState
              items == last'.value.items
          IN  /\ Cardinality(AtSavedKey) = 1
              /\ \A r \in AtSavedKey : /\ r.userState = last.args.userState
                                        /\ r.preload = last.args.preload
              /\ Len(items) = Cardinality(OtherPreloaded) + LatestOfSavedKey
              /\ Cardinality({i \in 1..Len(items) : items[i] = latest})
                    = Cardinality({r \in OtherPreloaded : ElementOf(r) = latest})
                      + LatestOfSavedKey]_vars

\* an aggregation over two records of the user, of which the one whose
\* preload is false is not delivered
C15_Witness ==
    /\ Called("generateContentUserDataIntegration")
    /\ contentUserDataStorage
    /\ last.outcome = "resolved"
    /\ \E r, q \in RecordsOfUser(store, last.args.contentId, last.args.user.id) :
          /\ r.preload = JsFalse /\ r.userState = "s2"
          /\ q.preload = JsTrue /\ q.userState = "s1"
    /\ last.value = [kind |-> "array", items |-> <<"state" :> "s1">>]

----------------------------------------------------------------------------
(* C16.  postContentUserData of the controller passes booleans as          *)
(* invalidate and preload to the manager, true exactly when the value in   *)
(* the request body is the number 1 or the string "1"; so no request is    *)
(* rejected with the manager's invalid-arguments error, and a request with *)
(* invalidate 1 or "1" removes the records of the content and requesting   *)
(* user and stores nothing of body.data.                                   *)

WireOne == {JsNumber("1"), JsString("1")}

C16_WitnessSave ==
    /\ Called("postContentUserData")
    /\ last.args.body.invalidate = JsString("0")
    /\ last.args.body.preload = JsNumber("1")
    /\ last.outcome = "resolved"
    /\ \E r \in store \ last.pre : r.preload = JsTrue

----------------------------------------------------------------------------
(* C17.  The arguments of saveContentUserData are validated whether or not *)
(* a storage is configured: without a storage, a call with an invalidate   *)
(* or a preload that is not a boolean rejects with the error for invalid   *)
(* arguments; it does not resolve as a no-op.                              *)

C17_ValidatedWithoutStorage ==
    (/\ ~contentUserDataStorage
     /\ Called("saveContentUserData")
     /\ ~BooleanFlags)
    => /\ last.outcome = "rejected"
       /\ last.error = InvalidArguments
       /\ last.error # TypeErrorOfUndefined

\* no storage, invalidate false and preload the number 1
C17_Witness ==
    /\ ~contentUserDataStorage
    /\ Called("saveContentUserData")
    /\ last.args.invalidate = JsFalse
    /\ last.args.preload = JsNumber("1")
    /\ last.outcome = "rejected"
    /\ last.error = InvalidArguments

\* no storage, invalidate the string "true": the check of the arguments comes
\* before the use of the storage
C17_WitnessInvalidate ==
    /\ ~contentUserDataStorage
    /\ Called("saveContentUserData")
    /\ last.args.invalidate = JsString("true")
    /\ last.error = InvalidArguments

----------------------------------------------------------------------------
(* C18.  loadContentUserData and generateContentUserDataIntegration only   *)
(* read: the storage holds after the call what it held before, and the     *)
(* array that listByContent resolved to has, when                          *)
(* generateContentUserDataIntegration ends, the elements it had when it    *)
(* was returned, in the same order.                                        *)

C18_ReadOnly ==
    ((Called("loadContentUserData") \/ Called("generateContentUserDataIntegration"))
     /\ last.outcome = "resolved")
    => /\ store = last.pre
       /\ finished = last.preFinished
       /\ last.returnedAfter = last.returned

====
